---- MODULE Spec2Model ----
(***************************************************************************)
(* The reconciliation context of the scheduled-cronjob controller          *)
(* (src/scheduled-cronjob/src/context.rs): generic get/create/delete,      *)
(* create_event, update_status and their composition update, run by        *)
(* concurrent reconciliation tasks against one cluster API server.         *)
(*                                                                         *)
(* The API server is the environment.  It answers every call with a status *)
(* code: the genuine answer for the stored state (200, 201, 404, 409), or, *)
(* when a fault is injected, 500.  A call is one atomic step at the server *)
(* and takes time: it advances the clock by one tick.  Utc::now() reads    *)
(* the clock.                                                              *)
(***************************************************************************)
EXTENDS Integers, Sequences, FiniteSets, TLC

\* ------------------------------------------------------------ bounds
\* The tasks call at most MaxCalls operations in all.
MaxCalls == 2
\* The server answers at most MaxFaults calls with an injected fault.
MaxFaults == 1
\* Clock ticks per second of Utc::now().timestamp().
TicksPerSec == 4

\* ------------------------------------------------------------ domains
Procs == {"p1", "p2"}
Namespaces == {"ns1"}
Names == {"job-a"}
Specs == {"s1"}
Phases == {"PhasePending", "PhaseRunning"}
EventTypes == {"Normal"}
Messages == {"job scheduled", "job started"}
\* What a reconciliation passes to update, update_status and create_event:
\* a phase and the message that goes with it.
Outcomes == {<<"PhasePending", "job scheduled">>, <<"PhaseRunning", "job started">>}

\* ScheduledCronJobPhase::as_str: the stable string form of a phase.
as_str(phase) ==
    CASE phase = "PhasePending" -> "Pending"
      [] phase = "PhaseRunning" -> "Running"
      [] OTHER -> "Unknown"

\* ScheduledCronJob::api_version(&()).
ApiVersion == "batch.divinerapier.io/v1alpha1"

\* ------------------------------------------------------------ time
\* now.timestamp(): whole seconds of a clock reading.
timestamp(t) == t \div TicksPerSec

\* A rendering that drops the sub-second part.
to_rfc3339_seconds(t) == <<t \div TicksPerSec, 0>>

\* Utc::now().to_rfc3339(): seconds and the sub-second part, as written
\* into last_update_time.
to_rfc3339(t) == <<t \div TicksPerSec, t % TicksPerSec>>

\* Utc::now() when the clock shows t: t, or, when the task was not
\* scheduled at once, the start of the next second.
UtcNow(t) == {t, (timestamp(t) + 1) * TicksPerSec}

\* Order of two rfc3339 renderings.
Later(a, b) == a[1] > b[1] \/ (a[1] = b[1] /\ a[2] > b[2])

\* ------------------------------------------------------------ objects
\* Option<ScheduledCronJobStatus>: None.
NoStatus ==
    [some |-> FALSE, phase |-> "PhasePending", message |-> "",
     last_update_time |-> <<0, 0>>]

\* The status built with message: None.
BuildStatus_noMessage(status, message, t) ==
    [some |-> TRUE, phase |-> status, message |-> "",
     last_update_time |-> to_rfc3339(t)]

\* ScheduledCronJobStatus { phase, message, last_update_time }
\* as update_status builds it.
BuildStatus(status, message, t) ==
    [some |-> TRUE, phase |-> status, message |-> message,
     last_update_time |-> to_rfc3339(t)]

\* The two assert_eq! of update_status on the status just built.
StatusAssertsHold(st, status, message) ==
    st.some /\ st.phase = status /\ st.message = message

\* The Event name without the second of the call.
EventName_noSecond(name, t) == name

\* format!("{}-{}", name, now.timestamp())
EventName(name, t) == name \o "-" \o ToString(timestamp(t))

\* An Event built with reason and message taken from each other's argument.
BuildEvent_swapped(resource, event_type, reason, message, t) ==
    [name |-> EventName(resource.name, t),
     namespace |-> resource.namespace,
     action |-> "Reconciling",
     count |-> 1,
     first_timestamp |-> timestamp(t),
     involved_name |-> resource.name,
     involved_uid |-> resource.uid,
     api_version |-> ApiVersion,
     type |-> event_type,
     reason |-> message,
     message |-> reason]

\* The Event create_event builds for a resource.
BuildEvent(resource, event_type, reason, message, t) ==
    [name |-> EventName(resource.name, t),
     namespace |-> resource.namespace,
     action |-> "Reconciling",
     count |-> 1,
     first_timestamp |-> timestamp(t),
     involved_name |-> resource.name,
     involved_uid |-> resource.uid,
     api_version |-> ApiVersion,
     type |-> event_type,
     reason |-> reason,
     message |-> message]

\* ------------------------------------------------------------ results
\* Result<_, crate::Error>; body is the set holding the returned object, if any.
Ok(body) == [tag |-> "Ok", code |-> 0, body |-> body]
ErrNotFound == [tag |-> "NotFound", code |-> 0, body |-> {}]
ErrKube(code) == [tag |-> "Kube", code |-> code, body |-> {}]
NoResult == [tag |-> "None", code |-> 0, body |-> {}]

IsErr(r) == r.tag \in {"NotFound", "Kube"}

\* ------------------------------------------------------------ API server
Resp(code, body) == [code |-> code, body |-> body]

\* The stored objects with one identity (none or one).
Lookup(st, ns, name) == {o \in st : o.namespace = ns /\ o.name = name}

\* api.get(name)
SrvGet(st, ns, name, fault) ==
    IF fault THEN Resp(500, {})
    ELSE IF Lookup(st, ns, name) = {} THEN Resp(404, {})
    ELSE Resp(200, Lookup(st, ns, name))

\* api.create(&PostParams::default(), object): the server assigns uid and
\* resourceVersion and drops the status (a status subresource).
SrvCreate(st, ns, object, rv, fault) ==
    IF fault THEN [resp |-> Resp(500, {}), store |-> st]
    ELSE IF Lookup(st, ns, object.name) # {}
         THEN [resp |-> Resp(409, {}), store |-> st]
    ELSE LET o == [name |-> object.name, namespace |-> ns, uid |-> rv,
                   rv |-> rv, spec |-> object.spec, status |-> NoStatus]
         IN [resp |-> Resp(201, {o}), store |-> st \cup {o}]

\* api.delete(name, &DeleteParams::foreground()): the server is taken to
\* finish the foreground deletion (the stored objects have no dependents)
\* within the call.
SrvDelete(st, ns, name, fault) ==
    IF fault THEN [resp |-> Resp(500, {}), store |-> st]
    ELSE IF Lookup(st, ns, name) = {}
         THEN [resp |-> Resp(404, {}), store |-> st]
    ELSE [resp |-> Resp(200, {}), store |-> st \ Lookup(st, ns, name)]

\* api.replace in the place of api.replace_status: a version-checked replace
\* of the main resource, which takes the spec of the body and keeps the
\* stored status.
SrvReplaceStatus_main(st, ns, name, body, rv, fault) ==
    IF fault THEN [resp |-> Resp(500, {}), store |-> st]
    ELSE IF Lookup(st, ns, name) = {}
         THEN [resp |-> Resp(404, {}), store |-> st]
    ELSE LET cur == CHOOSE o \in Lookup(st, ns, name) : TRUE
         IN IF cur.uid # body.uid \/ cur.rv # body.rv
            THEN [resp |-> Resp(409, {}), store |-> st]
            ELSE LET o == [cur EXCEPT !.spec = body.spec, !.rv = rv]
                 IN [resp |-> Resp(200, {o}),
                     store |-> (st \ {cur}) \cup {o}]

\* api.replace_status(&name, &PostParams::default(), bytes): a
\* version-checked replace of the status subresource only.
SrvReplaceStatus(st, ns, name, body, rv, fault) ==
    IF fault THEN [resp |-> Resp(500, {}), store |-> st]
    ELSE IF Lookup(st, ns, name) = {}
         THEN [resp |-> Resp(404, {}), store |-> st]
    ELSE LET cur == CHOOSE o \in Lookup(st, ns, name) : TRUE
         IN IF cur.uid # body.uid \/ cur.rv # body.rv
            THEN [resp |-> Resp(409, {}), store |-> st]
            ELSE LET o == [cur EXCEPT !.status = body.status, !.rv = rv]
                 IN [resp |-> Resp(200, {o}),
                     store |-> (st \ {cur}) \cup {o}]

\* A create of an Event that overwrites a stored Event of the same name.
SrvCreateEvent_overwrite(evs, event, fault) ==
    IF fault THEN [resp |-> Resp(500, {}), events |-> evs]
    ELSE [resp |-> Resp(201, {event}),
          events |-> {e \in evs : ~(e.namespace = event.namespace
                                     /\ e.name = event.name)} \cup {event}]

\* api.create(&PostParams::default(), &event) on the events of a namespace.
SrvCreateEvent(evs, event, fault) ==
    IF fault THEN [resp |-> Resp(500, {}), events |-> evs]
    ELSE IF \E e \in evs : e.namespace = event.namespace /\ e.name = event.name
         THEN [resp |-> Resp(409, {}), events |-> evs]
    ELSE [resp |-> Resp(201, {event}), events |-> evs \cup {event}]

\* ------------------------------------------------------------ result mapping
\* The match of get without its 404 arm.
GetResult_no404(resp) ==
    IF resp.code = 200 THEN Ok(resp.body)
    ELSE ErrKube(resp.code)

\* Context::get: the match on api.get's answer.
GetResult(resp) ==
    IF resp.code = 200 THEN Ok(resp.body)
    ELSE IF resp.code = 404 THEN ErrNotFound
    ELSE ErrKube(resp.code)

\* The match of create with a conflict taken as success.
CreateResult_absorb409(resp) ==
    IF resp.code = 201 THEN Ok(resp.body)
    ELSE IF resp.code = 409 THEN Ok({})
    ELSE ErrKube(resp.code)

\* Context::create: the match on api.create's answer.
CreateResult(resp) ==
    IF resp.code = 201 THEN Ok(resp.body)
    ELSE ErrKube(resp.code)

\* The match of delete without its 404 arm.
DeleteResult_no404(resp) ==
    IF resp.code = 200 THEN Ok({})
    ELSE ErrKube(resp.code)

\* Context::delete: the match on api.delete's answer.
DeleteResult(resp) ==
    IF resp.code = 200 THEN Ok({})
    ELSE IF resp.code = 404 THEN Ok({})
    ELSE ErrKube(resp.code)

\* The match of create_event with every error taken as success.
CreateEventResult_absorbAll(resp) == Ok({})

\* The match of create_event without its 409 arm.
CreateEventResult_no409(resp) ==
    IF resp.code = 201 THEN Ok({})
    ELSE ErrKube(resp.code)

\* Context::create_event: the match on api.create's answer.
CreateEventResult(resp) ==
    IF resp.code = 201 THEN Ok({})
    ELSE IF resp.code = 409 THEN Ok({})
    ELSE ErrKube(resp.code)

\* The match of update_status's fetch without its 404 arm.
FetchResult_no404(resp) ==
    IF resp.code = 200 THEN [tag |-> "Fetched", code |-> 0, body |-> resp.body]
    ELSE ErrKube(resp.code)

\* Context::update_status: the match on api.get's answer; "Fetched" goes on
\* to build and replace, anything else is returned.
FetchResult(resp) ==
    IF resp.code = 200 THEN [tag |-> "Fetched", code |-> 0, body |-> resp.body]
    ELSE IF resp.code = 404 THEN Ok({})
    ELSE ErrKube(resp.code)

\* The replace's answer with a conflict taken as success.
ReplaceResult_absorb409(resp) ==
    IF resp.code = 200 THEN Ok({})
    ELSE IF resp.code = 409 THEN Ok({})
    ELSE ErrKube(resp.code)

\* Context::update_status: api.replace_status(..).await? and Ok(()).
ReplaceResult(resp) ==
    IF resp.code = 200 THEN Ok({})
    ELSE ErrKube(resp.code)

\* ------------------------------------------------------------ state
VARIABLES
    store,    \* the ScheduledCronJob objects the server holds
    events,   \* the Event objects the server holds
    now,      \* the clock
    nextRV,   \* the server's next resourceVersion (and uid)
    pc,       \* pc[p]: where task p is
    op,       \* op[p]: the operation p runs, or ran last
    arg,      \* arg[p]: the arguments of that operation
    held,     \* held[p]: the resource copy p holds (from its last get/create)
    resource, \* resource[p]: update_status's re-fetched resource
    event,    \* event[p]: the Event create_event built
    ret,      \* ret[p]: what the operation returned
    quiet,    \* quiet[p]: no other task wrote since p's operation was called
    calls,    \* the operations called so far
    faults    \* the faults injected so far

vars == <<store, events, now, nextRV, pc, op, arg, held, resource, event,
          ret, quiet, calls, faults>>

NoArg ==
    [namespace |-> "", name |-> "", spec |-> "", status |-> "PhasePending",
     event_type |-> "", message |-> ""]

InitObject(name) ==
    [name |-> name, namespace |-> "ns1", uid |-> 1, rv |-> 1,
     spec |-> "s0", status |-> NoStatus]

\* Another object of the same kind in the namespace, which no task targets.
OtherObject ==
    [InitObject("job-b") EXCEPT !.uid = 0, !.rv = 0]

Init ==
    /\ store \in {{OtherObject}, {OtherObject, InitObject("job-a")}}
    /\ events = {}
    /\ now = 0
    /\ nextRV = 2
    /\ pc = [p \in Procs |-> "idle"]
    /\ op = [p \in Procs |-> "none"]
    /\ arg = [p \in Procs |-> NoArg]
    /\ held = [p \in Procs |-> {InitObject("job-a")}]
    /\ resource = [p \in Procs |-> {}]
    /\ event = [p \in Procs |-> {}]
    /\ ret = [p \in Procs |-> NoResult]
    /\ quiet = [p \in Procs |-> TRUE]
    /\ calls = 0
    /\ faults = 0

\* ------------------------------------------------------------ steps
\* A call of an operation by an idle task: its arguments are recorded and
\* its locals start empty.
Call(p, o, a) ==
    /\ pc[p] = "idle"
    /\ calls < MaxCalls
    /\ calls' = calls + 1
    /\ op' = [op EXCEPT ![p] = o]
    /\ arg' = [arg EXCEPT ![p] = a]

\* quiet after a step of p: p's own call starts a quiet period (called), a
\* write by p ends the quiet period of every other task (wrote).
Quiet(p, called, wrote) ==
    quiet' = [q \in Procs |->
                 IF q = p THEN (called \/ quiet[q])
                 ELSE (quiet[q] /\ ~wrote)]

\* One server round trip takes a tick of the clock; the answer may be an
\* injected fault.
RoundTrip(fault) ==
    /\ now' = now + 1
    /\ fault => faults < MaxFaults
    /\ faults' = IF fault THEN faults + 1 ELSE faults

\* The sub-operation's result dropped instead of unwrapped.
Unwrap_ignore(r) == "next"

\* .unwrap() on a sub-operation's result inside update: an Err panics.
Unwrap(r) == IF IsErr(r) THEN "panicked" ELSE "next"

\* Context::get
Get(p) ==
    \E ns \in Namespaces, name \in Names, fault \in BOOLEAN :
        LET resp == SrvGet(store, ns, name, fault)
            r == GetResult(resp)
        IN /\ Call(p, "get", [NoArg EXCEPT !.namespace = ns, !.name = name])
           /\ RoundTrip(fault)
           /\ ret' = [ret EXCEPT ![p] = r]
           /\ held' = [held EXCEPT ![p] = IF r.tag = "Ok" THEN r.body ELSE @]
           /\ Quiet(p, TRUE, FALSE)
           /\ resource' = [resource EXCEPT ![p] = {}]
           /\ event' = [event EXCEPT ![p] = {}]
           /\ UNCHANGED <<store, events, nextRV, pc>>

\* Context::create (and create_cronjob, which forwards to it)
Create(p) ==
    \E ns \in Namespaces, name \in Names, spec \in Specs, fault \in BOOLEAN :
        LET a == [NoArg EXCEPT !.namespace = ns, !.name = name, !.spec = spec]
            out == SrvCreate(store, ns, a, nextRV, fault)
            r == CreateResult(out.resp)
        IN /\ Call(p, "create", a)
           /\ RoundTrip(fault)
           /\ store' = out.store
           /\ nextRV' = IF out.store = store THEN nextRV ELSE nextRV + 1
           /\ ret' = [ret EXCEPT ![p] = r]
           /\ held' = [held EXCEPT ![p] = IF r.tag = "Ok" THEN r.body ELSE @]
           /\ Quiet(p, TRUE, out.store # store)
           /\ resource' = [resource EXCEPT ![p] = {}]
           /\ event' = [event EXCEPT ![p] = {}]
           /\ UNCHANGED <<events, pc>>

\* Context::delete
Delete(p) ==
    \E ns \in Namespaces, name \in Names, fault \in BOOLEAN :
        LET out == SrvDelete(store, ns, name, fault)
            r == DeleteResult(out.resp)
        IN /\ Call(p, "delete", [NoArg EXCEPT !.namespace = ns, !.name = name])
           /\ RoundTrip(fault)
           /\ store' = out.store
           /\ ret' = [ret EXCEPT ![p] = r]
           /\ Quiet(p, TRUE, out.store # store)
           /\ resource' = [resource EXCEPT ![p] = {}]
           /\ event' = [event EXCEPT ![p] = {}]
           /\ UNCHANGED <<events, nextRV, pc, held>>

\* Context::create_event, up to the Event it builds (it reads the clock).
CreateEvent(p) ==
    \E r \in held[p], event_type \in EventTypes, oc \in Outcomes,
       t \in UtcNow(now) :
      LET phase == oc[1]
          message == oc[2]
      IN
        /\ Call(p, "create_event",
                [NoArg EXCEPT !.namespace = r.namespace, !.name = r.name,
                              !.status = phase, !.event_type = event_type,
                              !.message = message])
        /\ event' = [event EXCEPT ![p] =
                        {BuildEvent(r, event_type, as_str(phase), message, t)}]
        /\ pc' = [pc EXCEPT ![p] = "ce_create"]
        /\ ret' = [ret EXCEPT ![p] = NoResult]
        /\ resource' = [resource EXCEPT ![p] = {}]
        /\ Quiet(p, TRUE, FALSE)
        /\ now' = t
        /\ UNCHANGED <<store, events, nextRV, held, faults>>

\* Context::update, up to the Event its create_event builds: the reason is
\* status.as_str().
Update(p) ==
    \E r \in held[p], event_type \in EventTypes, oc \in Outcomes,
       t \in UtcNow(now) :
      LET phase == oc[1]
          message == oc[2]
      IN
        /\ Call(p, "update",
                [NoArg EXCEPT !.namespace = r.namespace, !.name = r.name,
                              !.status = phase, !.event_type = event_type,
                              !.message = message])
        /\ event' = [event EXCEPT ![p] =
                        {BuildEvent(r, event_type, as_str(phase), message, t)}]
        /\ pc' = [pc EXCEPT ![p] = "ce_create"]
        /\ ret' = [ret EXCEPT ![p] = NoResult]
        /\ resource' = [resource EXCEPT ![p] = {}]
        /\ Quiet(p, TRUE, FALSE)
        /\ now' = t
        /\ UNCHANGED <<store, events, nextRV, held, faults>>

\* Context::create_event: api.create of the Event and the match on its
\* answer; inside update the result is unwrapped and update_status follows.
CeCreate(p) ==
    \E e \in event[p], fault \in BOOLEAN :
        LET out == SrvCreateEvent(events, e, fault)
            r == CreateEventResult(out.resp)
        IN /\ pc[p] = "ce_create"
           /\ RoundTrip(fault)
           /\ events' = out.events
           /\ Quiet(p, FALSE, out.events # events)
           /\ IF op[p] = "update"
              THEN IF Unwrap(r) = "panicked"
                   THEN /\ pc' = [pc EXCEPT ![p] = "panicked"]
                        /\ ret' = [ret EXCEPT ![p] = r]
                   ELSE /\ pc' = [pc EXCEPT ![p] = "us_fetch"]
                        /\ ret' = ret
              ELSE /\ pc' = [pc EXCEPT ![p] = "idle"]
                   /\ ret' = [ret EXCEPT ![p] = r]
           /\ UNCHANGED <<store, nextRV, op, arg, held, resource, event,
                          calls>>

\* Context::update_status: the call.
UpdateStatus(p) ==
    \E r \in held[p], oc \in Outcomes, t \in {now} :
      LET phase == oc[1]
          message == oc[2]
      IN
        /\ Call(p, "update_status",
                [NoArg EXCEPT !.namespace = r.namespace, !.name = r.name,
                              !.status = phase, !.message = message])
        /\ pc' = [pc EXCEPT ![p] = "us_fetch"]
        /\ ret' = [ret EXCEPT ![p] = NoResult]
        /\ resource' = [resource EXCEPT ![p] = {}]
        /\ event' = [event EXCEPT ![p] = {}]
        /\ Quiet(p, TRUE, FALSE)
        /\ now' = t
        /\ UNCHANGED <<store, events, nextRV, held, faults>>

\* What a task does with the result of update_status: inside update it is
\* unwrapped and update returns Ok(()), otherwise it is returned.
Finish(p, r) ==
    IF op[p] = "update" /\ Unwrap(r) = "panicked"
    THEN /\ pc' = [pc EXCEPT ![p] = "panicked"]
         /\ ret' = [ret EXCEPT ![p] = r]
    ELSE /\ pc' = [pc EXCEPT ![p] = "idle"]
         /\ ret' = [ret EXCEPT ![p] = IF op[p] = "update" THEN Ok({}) ELSE r]

\* Context::update_status: the re-fetch by namespace and name.
UsFetch(p) ==
    \E fault \in BOOLEAN :
        LET resp == SrvGet(store, arg[p].namespace, arg[p].name, fault)
            r == FetchResult(resp)
        IN /\ pc[p] = "us_fetch"
           /\ RoundTrip(fault)
           /\ IF r.tag = "Fetched"
              THEN /\ resource' = [resource EXCEPT ![p] = r.body]
                   /\ pc' = [pc EXCEPT ![p] = "us_replace"]
                   /\ ret' = ret
              ELSE /\ resource' = resource
                   /\ Finish(p, r)
           /\ Quiet(p, FALSE, FALSE)
           /\ UNCHANGED <<store, events, nextRV, op, arg, held, event,
                          calls>>

\* The object sent as the status replace, built on the caller's copy.
ReplaceBody_onCopy(fetched, copy, st) ==
    [copy EXCEPT !.status = st]

\* Context::update_status: the parameter `resource` is shadowed by the
\* fetched object, and the status is assigned on that one.
ReplaceBody(fetched, copy, st) ==
    [fetched EXCEPT !.status = st]

\* Context::update_status: the status is overwritten on the fetched copy
\* (the clock is read), the two assertions are made, and the copy is sent as
\* the status replace.
UsReplace(p) ==
    \E r \in resource[p], c \in held[p], fault \in BOOLEAN :
        LET st == BuildStatus(arg[p].status, arg[p].message, now)
            body == ReplaceBody(r, c, st)
            out == SrvReplaceStatus(store, arg[p].namespace, arg[p].name,
                                    body, nextRV, fault)
        IN /\ pc[p] = "us_replace"
           /\ resource' = [resource EXCEPT ![p] = {body}]
           /\ IF StatusAssertsHold(body.status, arg[p].status, arg[p].message)
              THEN /\ RoundTrip(fault)
                   /\ store' = out.store
                   /\ nextRV' = IF out.store = store THEN nextRV ELSE nextRV + 1
                   /\ Finish(p, ReplaceResult(out.resp))
                   /\ Quiet(p, FALSE, out.store # store)
              ELSE /\ ~fault
                   /\ pc' = [pc EXCEPT ![p] = "panicked"]
                   /\ UNCHANGED <<store, nextRV, now, faults, ret, quiet>>
           /\ UNCHANGED <<events, op, arg, held, event, calls>>

Next ==
    \/ \E p \in Procs : Get(p)
    \/ \E p \in Procs : Create(p)
    \/ \E p \in Procs : Delete(p)
    \/ \E p \in Procs : CreateEvent(p)
    \/ \E p \in Procs : Update(p)
    \/ \E p \in Procs : CeCreate(p)
    \/ \E p \in Procs : UpdateStatus(p)
    \/ \E p \in Procs : UsFetch(p)
    \/ \E p \in Procs : UsReplace(p)

Spec == Init /\ [][Next]_vars

\* ------------------------------------------------------------ claims
\* The target of p's operation, as stored now.
Target(p) == Lookup(store, arg[p].namespace, arg[p].name)

\* p's operation o has returned r.
Returned(p, o) == op[p] = o /\ pc[p] = "idle"

\* The step injected a fault.
Faulted == faults' = faults + 1

\* C1: get changes nothing in the store; it returns NotFound when no object
\* with the identity is stored and exactly the stored object when one is,
\* and anything else only when the server answers with a fault (an
\* Upstream error then).
C1_GetContract ==
    [][\A p \in Procs :
          Get(p) =>
              LET found == Lookup(store, arg'[p].namespace, arg'[p].name)
              IN /\ store' = store
                 /\ events' = events
                 /\ IF Faulted THEN ret'[p].tag = "Kube"
                    ELSE IF found = {} THEN ret'[p] = ErrNotFound
                    ELSE ret'[p] = Ok(found)]_vars

\* C1 witness: a get has returned the stored object, status included.
C1_Witness ==
    \E p \in Procs :
        /\ Returned(p, "get")
        /\ ret[p].tag = "Ok"
        /\ ret[p].body = Target(p)
        /\ \E o \in ret[p].body : o.status.some

\* C2: delete of an identity that is not stored returns success and leaves
\* the store unchanged; delete of a stored object returns success and
\* removes exactly it; and as long as no other task writes after a
\* successful delete, the identity is not stored and a get of it answers
\* NotFound.  (A server fault is returned as an error, the store unchanged.)
C2_DeleteIdempotent ==
    /\ [][\A p \in Procs :
             Delete(p) =>
                 LET found == Lookup(store, arg'[p].namespace, arg'[p].name)
                 IN IF Faulted THEN ret'[p].tag = "Kube" /\ store' = store
                    ELSE /\ ret'[p] = Ok({})
                         /\ store' = store \ found
                         /\ Lookup(store', arg'[p].namespace, arg'[p].name) = {}]_vars
    /\ [](\A p \in Procs :
             (Returned(p, "delete") /\ ret[p].tag = "Ok" /\ quiet[p]) =>
                 /\ Target(p) = {}
                 /\ GetResult(SrvGet(store, arg[p].namespace, arg[p].name, FALSE))
                        = ErrNotFound)

\* C2 witness: a delete has returned success after removing an object that
\* the server had stored (the server has written, and nothing is stored).
C2_Witness ==
    \E p \in Procs :
        /\ Returned(p, "delete") /\ ret[p].tag = "Ok" /\ quiet[p]
        /\ nextRV > 2
        /\ Target(p) = {}

\* The stored events with the identity of the Event p built.
SameName(evs, p) ==
    {e \in evs : \E b \in event[p] :
                     e.namespace = b.namespace /\ e.name = b.name}

\* C3: a create_event whose Event identity <resourceName>-<second> is
\* already stored (an earlier call for the same resource in the same second)
\* returns success and stores nothing; one whose identity is new stores its
\* Event; so two calls for one resource in one second, both answered by the
\* server without a fault, both return success and leave exactly one stored
\* event of that name.
C3_SameSecondOneEvent ==
    /\ [][\A p \in Procs :
             (CeCreate(p) /\ op[p] = "create_event" /\ ~Faulted) =>
                 /\ ret'[p] = Ok({})
                 /\ Cardinality(SameName(events', p)) = 1
                 /\ IF SameName(events, p) # {} THEN events' = events
                    ELSE events' = events \cup event[p]]_vars
    /\ [](\A p, q \in Procs :
             (/\ p # q
              /\ Returned(p, "create_event") /\ ret[p].code # 500
              /\ Returned(q, "create_event") /\ ret[q].code # 500
              /\ \E a \in event[p], b \in event[q] :
                     a.name = b.name /\ a.namespace = b.namespace) =>
                 /\ ret[p] = Ok({}) /\ ret[q] = Ok({})
                 /\ Cardinality(SameName(events, p)) = 1
                 /\ \A e \in SameName(events, p) :
                        e.name = EventName(arg[p].name, e.first_timestamp
                                                           * TicksPerSec))

\* C3 witness: two create_event calls for job-a in one second have both
\* returned success, with different contents, and one event is stored.
C3_Witness ==
    \E p, q \in Procs :
        /\ p # q
        /\ Returned(p, "create_event") /\ ret[p] = Ok({})
        /\ Returned(q, "create_event") /\ ret[q] = Ok({})
        /\ \E a \in event[p], b \in event[q] :
               a.name = b.name /\ a.namespace = b.namespace /\ a # b
        /\ Cardinality(events) = 1

\* C4: after update_status(resource, P, M) has fetched the stored resource
\* and returned success, and as long as no other task writes, the stored
\* resource (what a get returns) has status.phase = P and status.message = M;
\* and the accepted replace leaves a last_update_time later than the one
\* stored before it.
C4_StatusReadBack ==
    /\ [](\A p \in Procs :
             (/\ Returned(p, "update_status") /\ ret[p].tag = "Ok"
              /\ resource[p] # {} /\ quiet[p]) =>
                 LET got == GetResult(SrvGet(store, arg[p].namespace,
                                             arg[p].name, FALSE))
                 IN /\ got.tag = "Ok"
                    /\ \A o \in got.body :
                           /\ o.status.some
                           /\ o.status.phase = arg[p].status
                           /\ o.status.message = arg[p].message)
    /\ [][\A p \in Procs :
             (UsReplace(p) /\ op[p] = "update_status" /\ ret'[p].tag = "Ok") =>
                 \A old \in Target(p) :
                     \A new \in Lookup(store', arg[p].namespace, arg[p].name) :
                         /\ new.status.some
                         /\ old.status.some =>
                                Later(new.status.last_update_time,
                                      old.status.last_update_time)]_vars

\* C4 witness: an update_status has succeeded on a resource whose status an
\* earlier update_status had written with the other phase (the resource has
\* been written twice since it was created).
C4_Witness ==
    \E p \in Procs :
        /\ Returned(p, "update_status") /\ ret[p].tag = "Ok"
        /\ resource[p] # {} /\ quiet[p]
        /\ \E o \in Target(p) :
               /\ o.status.some
               /\ o.status.phase = arg[p].status
               /\ o.rv >= o.uid + 2

\* C5: update_status whose re-fetch answers not found returns success at
\* once: no status replace is issued, the store is not changed, and it holds
\* no object of that identity.
C5_UpdateStatusOnDeleted ==
    [][\A p \in Procs :
             (/\ UsFetch(p) /\ op[p] = "update_status" /\ ~Faulted
              /\ Target(p) = {}) =>
                 /\ ret'[p] = Ok({})
                 /\ pc'[p] = "idle"
                 /\ store' = store
                 /\ nextRV' = nextRV
                 /\ Lookup(store', arg[p].namespace, arg[p].name) = {}]_vars

\* C5 witness: update_status on a copy of a resource that is not stored has
\* returned success without fetching anything, and nothing is stored.
C5_Witness ==
    \E p \in Procs :
        /\ Returned(p, "update_status") /\ ret[p] = Ok({})
        /\ resource[p] = {} /\ held[p] # {}
        /\ Target(p) = {}

\* No other task is inside an operation, and none wrote since p's call.
NoConcurrency(p) ==
    quiet[p] /\ \A q \in Procs \ {p} : pc[q] \in {"idle", "panicked"}

\* The events a step added carry what update was called with.
AddsTheEvent(p) ==
    /\ Cardinality(events' \ events) = 1
    /\ \A e \in events' \ events :
           /\ e.involved_name = arg[p].name
           /\ e.namespace = arg[p].namespace
           /\ e.reason = as_str(arg[p].status)
           /\ e.message = arg[p].message
           /\ e.type = arg[p].event_type

\* update on a stored resource, with no write by another task since the
\* call, ends in success unless the server injected a fault, and then the
\* stored status has phase P.
UpdateSucceeds ==
    \A p \in Procs :
        (op[p] = "update" /\ quiet[p] /\ Target(p) # {}) =>
            /\ pc[p] = "panicked" => ret[p].code = 500
            /\ pc[p] = "idle" =>
                   /\ ret[p] = Ok({})
                   /\ \A o \in Target(p) :
                          o.status.some /\ o.status.phase = arg[p].status

\* C6 as stated: for a stored resource and no concurrent activity,
\* update(resource, P, T, M) returns success and leaves (a) exactly one new
\* event for the resource with reason as_str(P), message M and type T, and
\* (b) the stored status.phase equal to P.
C6_Original ==
    /\ []UpdateSucceeds
    /\ [][\A p \in Procs :
             (/\ CeCreate(p) /\ op[p] = "update" /\ ~Faulted
              /\ NoConcurrency(p) /\ Target(p) # {}) =>
                 AddsTheEvent(p)]_vars

\* C6 as amended: the same, the new event provided no event named
\* <resourceName>-<second> is stored yet; when one is, the conflict is
\* absorbed and update adds no event.
C6_UpdateEventAndPhase ==
    /\ []UpdateSucceeds
    /\ [][\A p \in Procs :
             (/\ CeCreate(p) /\ op[p] = "update" /\ ~Faulted
              /\ NoConcurrency(p) /\ Target(p) # {}) =>
                 IF SameName(events, p) = {} THEN AddsTheEvent(p)
                 ELSE events' = events]_vars

\* C6 witness: update has returned success on a stored resource that had
\* phase Pending: the phase is Running, and the event of the call is stored.
C6_Witness ==
    \E p \in Procs :
        /\ Returned(p, "update") /\ ret[p] = Ok({}) /\ quiet[p]
        /\ arg[p].status = "PhaseRunning"
        /\ \E o \in Target(p) :
               o.status.phase = "PhaseRunning" /\ o.rv >= o.uid + 2
        /\ \E e \in events :
               /\ e.reason = "Running" /\ e.message = "job started"
               /\ e.type = "Normal" /\ e.involved_name = "job-a"

\* C7: update on a copy of a resource that is not stored (deleted out of
\* band, and no task writes during the call) ends in success: it returns
\* Ok(()), and aborts only when the server injects a fault; and no step of it
\* stores a resource of that identity.
C7_UpdateOnDeletedCopy ==
    /\ [](\A p \in Procs :
             (op[p] = "update" /\ quiet[p] /\ Target(p) = {}) =>
                 /\ pc[p] = "panicked" => ret[p].code = 500
                 /\ pc[p] = "idle" => ret[p] = Ok({}))
    /\ [][\A p \in Procs :
             (/\ CeCreate(p) \/ UsFetch(p) \/ UsReplace(p)
              /\ op[p] = "update" /\ Target(p) = {}) =>
                 Lookup(store', arg[p].namespace, arg[p].name) = {}]_vars

\* C7 witness: update on a held copy of a resource that is not stored has
\* returned success; its event is stored, the resource is not.
C7_Witness ==
    \E p \in Procs :
        /\ Returned(p, "update") /\ ret[p] = Ok({}) /\ quiet[p]
        /\ held[p] # {} /\ resource[p] = {}
        /\ event[p] \subseteq events
        /\ Target(p) = {}

\* C8 as stated: update never aborts; a failure of its event step or of its
\* status step is returned as an error value.
C8_UpdateNeverAborts ==
    \A p \in Procs : op[p] = "update" => pc[p] # "panicked"

\* The fetched revisions of p and q are one revision of one resource.
SameRevision(p, q) ==
    /\ arg[p].namespace = arg[q].namespace /\ arg[p].name = arg[q].name
    /\ \E a \in resource[p], b \in resource[q] : a.uid = b.uid /\ a.rv = b.rv

\* C9: of two update_status calls that fetched the same revision and whose
\* replaces the server answered without a fault, exactly one is accepted;
\* the other returns the version conflict as an Upstream error, and the
\* stored status is the winner's.  No call goes back to its fetch after its
\* replace is answered.
C9_ConflictNotRetried ==
    /\ [](\A p, q \in Procs :
             (/\ p # q
              /\ Returned(p, "update_status") /\ ret[p].code # 500
              /\ Returned(q, "update_status") /\ ret[q].code # 500
              /\ SameRevision(p, q)) =>
                 \E w \in {p, q} :
                     \E l \in {p, q} \ {w} :
                         /\ ret[w] = Ok({})
                         /\ ret[l] = ErrKube(409)
                         /\ Target(w) # {}
                         /\ \A o \in Target(w), r \in resource[w] :
                                o.status = r.status)
    /\ [][\A p \in Procs :
             UsReplace(p) => pc'[p] \in {"idle", "panicked"}]_vars

\* C9 witness: two update_status calls with different phases fetched the same
\* revision; one has returned Ok and the other the conflict.
C9_Witness ==
    \E p, q \in Procs :
        /\ p # q
        /\ Returned(p, "update_status") /\ ret[p] = Ok({})
        /\ Returned(q, "update_status") /\ ret[q] = ErrKube(409)
        /\ SameRevision(p, q)
        /\ arg[p].status # arg[q].status

\* C10: create returns an Upstream error on every error the server reports,
\* a fault or "already exists" (409), and leaves the store unchanged then;
\* on success it returns the object the server stored.
C10_CreateErrors ==
    [][\A p \in Procs :
          Create(p) =>
              LET found == Lookup(store, arg'[p].namespace, arg'[p].name)
                  after == Lookup(store', arg'[p].namespace, arg'[p].name)
              IN IF Faulted \/ found # {}
                 THEN /\ ret'[p].tag = "Kube"
                      /\ ~Faulted => ret'[p].code = 409
                      /\ store' = store
                 ELSE /\ ret'[p] = Ok(after)
                      /\ Cardinality(after) = 1
                      /\ store' = store \cup after
                      /\ \A o \in after : o.spec = arg'[p].spec]_vars

\* C10 witness: a create of an identity that is stored has returned the
\* conflict as an error, and the object is still stored.
C10_Witness ==
    \E p \in Procs :
        /\ Returned(p, "create") /\ ret[p] = ErrKube(409)
        /\ Target(p) # {}


\* The stored events about the resource ns/name.
EventsOf(evs, ns, name) ==
    {e \in evs : e.namespace = ns /\ e.involved_name = name}

\* No stored event about the resource of p's Event is of its second.
NewSecond(evs, p) ==
    \A b \in event[p] :
        \A e \in EventsOf(evs, b.namespace, b.involved_name) :
            e.first_timestamp # b.first_timestamp

\* C11: an Event built in a second of which the resource has no stored event
\* is stored by its create (unless the server injects a fault), whatever
\* type, reason and message the stored events of other seconds carry; so the
\* stored events of a resource are one per second, two create_event calls
\* that succeeded in different seconds have an event each, and every second
\* in which a create_event succeeded has its event.
C11_DifferentSecondsNotDeduplicated ==
    /\ [][\A p \in Procs :
             (CeCreate(p) /\ ~Faulted /\ NewSecond(events, p)) =>
                 /\ events' = events \cup event[p]
                 /\ Cardinality(events') = Cardinality(events) + 1
                 /\ pc'[p] # "panicked" /\ ~IsErr(ret'[p])]_vars
    /\ [](\A ns \in Namespaces, name \in Names :
             Cardinality(EventsOf(events, ns, name))
                 = Cardinality({e.first_timestamp :
                                   e \in EventsOf(events, ns, name)}))
    /\ [](\A p \in Procs :
             (Returned(p, "create_event") /\ ret[p] = Ok({})) =>
                 /\ SameName(events, p) # {}
                 /\ \A q \in Procs \ {p} :
                        (/\ Returned(q, "create_event") /\ ret[q] = Ok({})
                         /\ \E a \in event[p], b \in event[q] :
                                /\ a.namespace = b.namespace
                                /\ a.involved_name = b.involved_name
                                /\ a.first_timestamp # b.first_timestamp) =>
                            SameName(events, p) \cap SameName(events, q) = {})

\* C11 witness: two create_event calls for job-a with the same type, reason
\* and message have succeeded in different seconds, and both Events are
\* stored.
C11_Witness ==
    \E p, q \in Procs :
        /\ p # q
        /\ Returned(p, "create_event") /\ ret[p] = Ok({})
        /\ Returned(q, "create_event") /\ ret[q] = Ok({})
        /\ \E a \in event[p], b \in event[q] :
               /\ a.involved_name = b.involved_name
               /\ a.type = b.type /\ a.reason = b.reason
               /\ a.message = b.message
               /\ a.first_timestamp # b.first_timestamp
               /\ {a, b} \subseteq events
        /\ Cardinality(events) = 2

\* C12 as stated: update_status returns success whenever the resource is
\* deleted between the caller's decision and the status write, a deletion
\* that lands after the re-fetch and before the replace included: the
\* replace of a resource that is not stored any more returns success.
C12_DeletionNeverAFailure ==
    [][\A p \in Procs :
          (/\ UsReplace(p) /\ op[p] = "update_status" /\ ~Faulted
           /\ Target(p) = {}) =>
              ret'[p] = Ok({})]_vars

\* C13: in update the status fetch is issued only after the event create has
\* been answered, and only when the event step succeeded (the Event was
\* created, or the conflict absorbed, so an Event of that name is stored);
\* an event step that fails ends the invocation without touching the
\* store, and the invocation takes no step after that: it issues no fetch
\* and no status replace.
C13_EventBeforeStatus ==
    /\ [][\A p \in Procs :
             (CeCreate(p) /\ op[p] = "update") =>
                 /\ store' = store
                 /\ IF Faulted
                    THEN /\ pc'[p] = "panicked"
                         /\ IsErr(ret'[p])
                         /\ events' = events
                    ELSE /\ pc'[p] = "us_fetch"
                         /\ SameName(events', p) # {}]_vars
    /\ [][\A p \in Procs :
             ((UsFetch(p) \/ UsReplace(p)) /\ op[p] = "update") =>
                 /\ event[p] # {}
                 /\ SameName(events, p) # {}]_vars
    /\ [][\A p \in Procs :
             pc[p] = "panicked" =>
                 /\ pc'[p] = "panicked"
                 /\ ret'[p] = ret[p] /\ resource'[p] = resource[p]
                 /\ ~(CeCreate(p) \/ UsFetch(p) \/ UsReplace(p))]_vars

\* C13 witness: the event step of an update on the stored job-a has failed:
\* the invocation is over, nothing was fetched, no Event of it is stored and
\* the stored status was never written.
C13_Witness ==
    \E p \in Procs :
        /\ op[p] = "update" /\ pc[p] = "panicked" /\ ret[p] = ErrKube(500)
        /\ event[p] # {} /\ SameName(events, p) = {}
        /\ resource[p] = {}
        /\ Target(p) # {}
        /\ \A o \in Target(p) : ~o.status.some

\* C14: a status replace that succeeds (in update_status or in update)
\* changes the stored resource in its status and resourceVersion only: the
\* object stored after it has the identity (namespace, name, uid) and the
\* spec the server held at the re-fetch and holds now, whatever the caller's
\* copy holds, and the status the call built; every other stored object and
\* every stored event is left as it was.
C14_OnlyTheStatusChanges ==
    [][\A p \in Procs :
          (UsReplace(p) /\ pc'[p] = "idle" /\ ret'[p] = Ok({})) =>
              \E old \in Target(p) :
                  \E new \in Lookup(store', arg[p].namespace, arg[p].name) :
                      /\ store' \ {new} = store \ {old}
                      /\ OtherObject \in store'
                      /\ events' = events
                      /\ new.name = old.name /\ new.namespace = old.namespace
                      /\ new.uid = old.uid /\ new.spec = old.spec
                      /\ new.rv # old.rv
                      /\ \A r \in resource[p] :
                             /\ new.uid = r.uid /\ new.spec = r.spec
                             /\ new.name = r.name
                             /\ new.namespace = r.namespace
                      /\ new.status.some
                      /\ new.status.phase = arg[p].status
                      /\ new.status.message = arg[p].message
                      /\ new.status # old.status]_vars

\* C14 witness: update_status has succeeded for a caller whose copy is of an
\* earlier incarnation with another spec: the stored job-a has the spec and
\* uid of the server's object and the new status, and the other object of
\* the namespace is stored as it was.
C14_Witness ==
    \E p \in Procs :
        /\ Returned(p, "update_status") /\ ret[p] = Ok({}) /\ resource[p] # {}
        /\ OtherObject \in store
        /\ \E o \in Target(p), c \in held[p] :
               /\ o.spec # c.spec /\ o.uid # c.uid
               /\ o.status.some /\ o.status.phase = arg[p].status

\* Error codes a server reports (KubeError::Api(e), e.code).
ErrorCodes == {400, 403, 404, 409, 422, 500, 503}

\* C15: a create_event whose create the server answers with an error other
\* than conflict returns that error as Error::Kube: the call is over and has
\* returned (it has not aborted), and it has stored no event.
C15_EventErrorsReturned ==
    /\ [][\A p \in Procs :
             (CeCreate(p) /\ op[p] = "create_event" /\ Faulted) =>
                 /\ pc'[p] = "idle"
                 /\ ret'[p].tag = "Kube" /\ ret'[p].code # 409
                 /\ events' = events
                 /\ store' = store]_vars
    /\ [](\A code \in ErrorCodes \ {409} :
             CreateEventResult(Resp(code, {})) = ErrKube(code))
    /\ [](\A p \in Procs : op[p] = "create_event" => pc[p] # "panicked")

\* C15 witness: a create_event has returned the server's error; the Event it
\* built is not stored.
C15_Witness ==
    \E p \in Procs :
        /\ Returned(p, "create_event") /\ ret[p] = ErrKube(500)
        /\ event[p] # {} /\ SameName(events, p) = {}

\* C16: the two assertions of update_status hold whenever they are made: the
\* status built for any phase and message, at any time, has that phase and
\* that message; so every replace step passes them, and a task that has
\* aborted has aborted on the unwrap of an error, never on an assertion.
C16_StatusAssertsNeverFail ==
    /\ [](\A ph \in Phases, m \in Messages :
             StatusAssertsHold(BuildStatus(ph, m, now), ph, m))
    /\ [][\A p \in Procs :
             UsReplace(p) =>
                 /\ resource'[p] # {}
                 /\ \A r \in resource'[p] :
                        StatusAssertsHold(r.status, arg[p].status,
                                          arg[p].message)]_vars
    /\ [](\A p \in Procs : pc[p] = "panicked" => IsErr(ret[p]))

\* C16 witness: an update_status has passed the assertions on a fetched
\* resource whose status was already written, and its replace was accepted.
C16_Witness ==
    \E p \in Procs :
        /\ Returned(p, "update_status") /\ ret[p] = Ok({})
        /\ \E r \in resource[p] :
               /\ StatusAssertsHold(r.status, arg[p].status, arg[p].message)
               /\ r.rv > r.uid
               /\ r \notin store

\* update has returned success after its status replace was accepted.
UpdateWrote(p) ==
    Returned(p, "update") /\ ret[p] = Ok({}) /\ resource[p] # {}

\* C17 as stated: whenever update(resource, P, T, M) has returned success
\* after writing phase P to a stored resource, the store holds an event for
\* that resource whose reason is the string form of P, in every
\* interleaving.
C17_Original ==
    \A p \in Procs :
        UpdateWrote(p) =>
            \E e \in EventsOf(events, arg[p].namespace, arg[p].name) :
                e.reason = as_str(arg[p].status)

\* C17 as amended: whenever update has returned success after writing phase
\* P, the store holds an event for that resource named
\* <resourceName>-<second of the call>; it is the Event of this call, with
\* the string form of P as reason, when no event of that name was stored as
\* the call's create reached the server, and the earlier event, left as it
\* was, otherwise; and stored events are never changed or removed.
C17_UpdateLeavesNamedEvent ==
    /\ [](\A p \in Procs :
             UpdateWrote(p) =>
                 /\ Cardinality(SameName(events, p)) = 1
                 /\ SameName(events, p)
                        \subseteq EventsOf(events, arg[p].namespace,
                                           arg[p].name))
    /\ [][\A p \in Procs :
             (CeCreate(p) /\ op[p] = "update" /\ ~Faulted) =>
                 IF SameName(events, p) = {}
                 THEN /\ events' = events \cup event[p]
                      /\ \A e \in SameName(events', p) :
                             e.reason = as_str(arg[p].status)
                 ELSE events' = events]_vars
    /\ [][events \subseteq events']_vars

\* C17 witness: two update calls on job-a with different phases within one
\* second have both returned success after writing; one event of that name
\* is stored, and its reason is not the string form of the stored phase.
C17_Witness ==
    \E p, q \in Procs :
        /\ p # q /\ UpdateWrote(p) /\ UpdateWrote(q)
        /\ arg[p].status # arg[q].status
        /\ SameName(events, p) = SameName(events, q)
        /\ event[p] \subseteq events /\ ~(event[q] \subseteq events)
        /\ \A o \in Target(q) :
               /\ o.status.phase = arg[q].status
               /\ \A e \in events : e.reason # as_str(o.status.phase)

\* C18: the create_event whose create reaches the server first, with no
\* event of its name stored, stores its Event; a later create_event for the
\* same resource in the same second whose Event differs in type, reason or
\* message returns success and leaves the stored events as they were: none
\* of its content is stored, then or later.  So of two such calls that have
\* returned, at most one has its Event stored and one event of the name
\* exists.
C18_FirstEventWins ==
    /\ [][\A p \in Procs :
             (CeCreate(p) /\ op[p] = "create_event" /\ ~Faulted) =>
                 IF SameName(events, p) = {}
                 THEN event[p] \subseteq events'
                 ELSE /\ events' = events
                      /\ ret'[p] = Ok({}) /\ pc'[p] = "idle"
                      /\ ~(event[p] \subseteq events) =>
                             ~(event[p] \subseteq events')]_vars
    /\ [][\A e \in events : e \in events']_vars
    /\ [](\A p, q \in Procs :
             (/\ p # q
              /\ Returned(p, "create_event") /\ ret[p] = Ok({})
              /\ Returned(q, "create_event") /\ ret[q] = Ok({})) =>
                 \A a \in event[p], b \in event[q] :
                     (a.name = b.name /\ a.namespace = b.namespace /\ a # b) =>
                         /\ ~({a, b} \subseteq events)
                         /\ Cardinality(SameName(events, p)) = 1)

\* C18 witness: two create_event calls for job-a in one second with
\* different reasons and messages have both returned success; the Event of
\* one is the only stored event, the Event of the other is not stored.
C18_Witness ==
    \E p, q \in Procs :
        /\ p # q
        /\ Returned(p, "create_event") /\ ret[p] = Ok({})
        /\ Returned(q, "create_event") /\ ret[q] = Ok({})
        /\ \E a \in event[p], b \in event[q] :
               /\ a.name = b.name /\ a.namespace = b.namespace
               /\ a.reason # b.reason /\ a.message # b.message
               /\ events = {a}

\* C19: update_status takes the namespace and the name from the caller's
\* copy and nothing else: its re-fetch returns the stored object whatever
\* the copy holds; and when the stored resource is still the fetched
\* revision as the replace reaches the server (no write to it landed in
\* between), the replace is accepted and update_status returns success
\* (unless the server injects a fault), for every copy the caller may hold,
\* however many revisions behind the stored one it is.
C19_StaleCopySucceeds ==
    /\ [][\A p \in Procs :
             UpdateStatus(p) =>
                 \E c \in held[p] :
                     /\ arg'[p].namespace = c.namespace
                     /\ arg'[p].name = c.name]_vars
    /\ [][\A p \in Procs :
             (/\ UsFetch(p) /\ op[p] = "update_status" /\ ~Faulted
              /\ Target(p) # {}) =>
                 /\ resource'[p] = Target(p)
                 /\ pc'[p] = "us_replace"]_vars
    /\ [][\A p \in Procs :
             (/\ UsReplace(p) /\ op[p] = "update_status" /\ ~Faulted
              /\ resource[p] = Target(p)) =>
                 /\ ret'[p] = Ok({}) /\ pc'[p] = "idle"
                 /\ \A o \in Lookup(store', arg[p].namespace, arg[p].name) :
                        o.status.some /\ o.status.phase = arg[p].status]_vars

\* C19 witness: update_status has succeeded for a caller whose copy is of
\* the stored incarnation and behind the revision it fetched.
C19_Witness ==
    \E p \in Procs :
        /\ Returned(p, "update_status") /\ ret[p] = Ok({})
        /\ \E r \in resource[p], c \in held[p] :
               /\ c.uid = r.uid /\ c.name = r.name
               /\ c.rv < r.rv
               /\ c.status # r.status
        /\ \A o \in Target(p) : o.status.phase = arg[p].status

\* A caller's copy two or more revisions behind the one update_status
\* fetched (reached when more than two operations are called).
C19_TwoBehind ==
    \E p \in Procs :
        /\ Returned(p, "update_status") /\ ret[p] = Ok({})
        /\ \E r \in resource[p], c \in held[p] :
               c.uid = r.uid /\ c.rv + 2 <= r.rv

====
